---- MODULE Spec2Model ----
(***************************************************************************)
(* A model of package systray (systray.go): the menu item registry, the   *)
(* id allocator, the ready/quit lifecycle and the click channel.          *)
(*                                                                         *)
(* Application goroutines call AddMenuItem, the setters, Quit and receive *)
(* on ClickedCh.  Main threads call Run and then execute the native loop, *)
(* from which the backend calls systrayReady and systrayMenuItemSelected. *)
(* nativeLoop, quit and addOrUpdateMenuItem are per-platform code outside *)
(* systray.go; they are modelled from the interface the package relies on.*)
(***************************************************************************)
EXTENDS Integers, Sequences, FiniteSets, TLC

\* ---- bounds of the model ----
MaxItems == 2       \* AddMenuItem calls
MaxSets == 2        \* setter calls
MaxClicks == 2      \* clicks reported by the backend
MaxRuns == 2        \* Run calls
MaxQuits == 2       \* Quit calls

Goroutines == {"g1", "g2"}     \* application goroutines
Mains == {"m1", "m2"}                \* threads that call Run
Strings == {"a", "b"}          \* titles and tooltips
AddArgs == {<<"a", "b">>, <<"b", "a">>}   \* the title and tooltip of an AddMenuItem call
Nil == 0                       \* the nil *MenuItem
None == "none"                 \* nobody holds the write lock

\* ClickedCh = make(chan *MenuItem): the capacity of the click channel
ClickedChCap == 0

VARIABLES
    currentID,    \* var currentID int32
    items,        \* the MenuItem structs allocated so far; a *MenuItem is an index
    menuItems,    \* var menuItems map[int32]*MenuItem
    writer,       \* menuItemsLock: the goroutine holding it for writing, or None
    readers,      \* menuItemsLock: the threads holding it for reading
    native,       \* backend: id -> the item state last applied
    order,        \* backend: the ids of the visual menu, top to bottom
    written,      \* history: the number of stores into menuItems
    applied,      \* history: the number of calls of addOrUpdateMenuItem
    placed,       \* history: id -> the hint of the first apply of that id
    ClickedCh,    \* the values buffered in ClickedCh
    pc,           \* where each application goroutine is
    call,         \* the arguments and locals of each goroutine's current call
    got,          \* the value a goroutine has received from ClickedCh
    interfered,   \* another goroutine wrote the field this call is setting
    numSets,      \* setter calls made
    numQuits,     \* Quit calls made
    mpc,          \* where each main thread is
    clickId,      \* systrayMenuItemSelected: the id argument
    looked,       \* systrayMenuItemSelected: the local item
    numClicks,    \* clicks reported by the backend
    delivered,    \* values received from ClickedCh by all listeners
    waiters,      \* the goroutines started by Run, in order of creation
    readyFired,   \* backend: this loop has fired its ready signal
    stopReq,      \* backend: the loop has been asked to stop
    readyCalls,   \* calls of systrayReady
    loopEntries,  \* calls of nativeLoop
    onReadyBy     \* the goroutines and threads that have run onReady

vars == <<currentID, items, menuItems, writer, readers, native, order, written,
          applied, placed, ClickedCh,
          pc, call, got, interfered, numSets, numQuits, mpc, clickId, looked,
          numClicks, delivered, waiters, readyFired, stopReq, readyCalls,
          loopEntries, onReadyBy>>

menuVars == <<currentID, items, menuItems, writer, readers, native, order, written,
             applied, placed>>
goVars == <<pc, call, got, interfered, numSets, numQuits>>
clickVars == <<clickId, looked, numClicks, delivered, ClickedCh>>
loopVars == <<mpc, waiters, readyFired, stopReq, readyCalls, loopEntries, onReadyBy>>

\* ---- values ----

\* int32 arithmetic of atomic.AddInt32
MaxInt32 == 2147483647
AddInt32(x, d) ==
    IF x > MaxInt32 - d THEN (-MaxInt32 - 1) + (d - 1 - (MaxInt32 - x)) ELSE x + d

\* A Go string is two words, data pointer and length; a string written by two
\* unsynchronised goroutines can end up with one word of each.
Str(s) == <<s, s>>

\* &MenuItem{id, title, tooltip, false, false, false, false}
MenuItem(id, title, tooltip) ==
    [id |-> id, title |-> Str(title), tooltip |-> Str(tooltip),
     disabled |-> FALSE, checked |-> FALSE, remove |-> FALSE, separator |-> FALSE]

NoCall == [op |-> "none", item |-> Nil, id |-> 0, field |-> "none",
           sval |-> "", tooltip |-> "", bval |-> FALSE, before |-> Nil]

\* The items whose AddMenuItem has returned: the handles application code holds.
Handles ==
    {p \in 1..Len(items) :
        ~\E g \in Goroutines : call[g].op = "AddMenuItem" /\ call[g].item = p}

\* The goroutines inside a setter call on field f of item p, after their write.
InSetter(g, p, f) ==
    /\ pc[g] \in {"len", "lock", "apply", "ret"}
    /\ call[g].op \notin {"none", "AddMenuItem"}
    /\ call[g].item = p
    /\ call[g].field = f

Init ==
    /\ currentID = 0
    /\ items = <<>>
    /\ menuItems = <<>>
    /\ writer = None
    /\ readers = {}
    /\ native = <<>>
    /\ order = <<>>
    /\ written = 0
    /\ applied = 0
    /\ placed = <<>>
    /\ ClickedCh = <<>>
    /\ pc = [g \in Goroutines |-> "idle"]
    /\ call = [g \in Goroutines |-> NoCall]
    /\ got = [g \in Goroutines |-> Nil]
    /\ interfered = [g \in Goroutines |-> FALSE]
    /\ numSets = 0
    /\ numQuits = 0
    /\ mpc = [t \in Mains |-> "idle"]
    /\ clickId = [t \in Mains |-> 0]
    /\ looked = [t \in Mains |-> Nil]
    /\ numClicks = 0
    /\ delivered = 0
    /\ waiters = <<>>
    /\ readyFired = [t \in Mains |-> FALSE]
    /\ stopReq = [t \in Mains |-> FALSE]
    /\ readyCalls = 0
    /\ loopEntries = 0
    /\ onReadyBy = {}

\* ---- AddMenuItem ----

\* func AddMenuItem(title, tooltip, before): the call is made
AddMenuItem(g, title, tooltip, before) ==
    /\ pc[g] = "idle"
    /\ Len(items) + Cardinality({h \in Goroutines : pc[h] = "alloc"}) < MaxItems
    /\ pc' = [pc EXCEPT ![g] = "alloc"]
    /\ call' = [call EXCEPT ![g] = [NoCall EXCEPT !.op = "AddMenuItem",
                    !.sval = title, !.tooltip = tooltip, !.before = before]]
    /\ UNCHANGED <<menuVars, got, interfered, numSets, numQuits, clickVars, loopVars>>

\* id := currentID + 1; currentID = id, as a load and a later store
AllocIdLoadStore(g) ==
    /\ pc[g] = "alloc"
    /\ IF call[g].id = 0
       THEN /\ call' = [call EXCEPT ![g].id = AddInt32(currentID, 1)]
            /\ UNCHANGED <<currentID, items, pc>>
       ELSE /\ currentID' = call[g].id
            /\ items' = Append(items, MenuItem(call[g].id, call[g].sval, call[g].tooltip))
            /\ call' = [call EXCEPT ![g].item = Len(items) + 1]
            /\ pc' = [pc EXCEPT ![g] = "lock"]
    /\ UNCHANGED <<menuItems, writer, readers, native, order, written, applied,
                   placed, got, interfered, numSets, numQuits, clickVars, loopVars>>

\* id := atomic.AddInt32(&currentID, 1); item := &MenuItem{id, ...}
AllocId(g) ==
    /\ pc[g] = "alloc"
    /\ LET id == AddInt32(currentID, 1) IN
        /\ currentID' = id
        /\ items' = Append(items, MenuItem(id, call[g].sval, call[g].tooltip))
        /\ call' = [call EXCEPT ![g].id = id, ![g].item = Len(items) + 1]
    /\ pc' = [pc EXCEPT ![g] = "lock"]
    /\ UNCHANGED <<menuItems, writer, readers, native, order, written, applied,
                   placed, got, interfered, numSets, numQuits, clickVars, loopVars>>

\* ---- update ----

\* menuItemsLock.Lock(); menuItems[item.id] = item
LockRegister(g) ==
    /\ pc[g] = "lock"
    /\ writer = None
    /\ readers = {}
    /\ writer' = g
    /\ menuItems' = (items[call[g].item].id :> call[g].item) @@ menuItems
    /\ written' = written + 1
    /\ pc' = [pc EXCEPT ![g] = "apply"]
    /\ UNCHANGED <<currentID, items, readers, native, order, applied, placed, call,
                   got, interfered, numSets, numQuits, clickVars, loopVars>>

\* backend: the visual menu after item id is applied with hint before
Place(menu, id, before) ==
    IF \E i \in 1..Len(menu) : menu[i] = id
    THEN menu
    ELSE IF before # Nil /\ \E i \in 1..Len(menu) : menu[i] = items[before].id
         THEN LET k == CHOOSE i \in 1..Len(menu) : menu[i] = items[before].id
              IN SubSeq(menu, 1, k - 1) \o <<id>> \o SubSeq(menu, k, Len(menu))
         ELSE Append(menu, id)

\* backend: addOrUpdateMenuItem(item, before) applies the item's full state
addOrUpdateMenuItem(p, before) ==
    /\ native' = (items[p].id :> items[p]) @@ native
    /\ order' = Place(order, items[p].id, before)
    /\ applied' = applied + 1
    /\ placed' = IF items[p].id \in DOMAIN placed THEN placed
               ELSE (items[p].id :> before) @@ placed

\* addOrUpdateMenuItem(item, nil) in update, whatever hint the caller gave
ApplyUnlockNoHint(g) ==
    /\ pc[g] = "apply"
    /\ writer = g
    /\ addOrUpdateMenuItem(call[g].item, Nil)
    /\ writer' = None
    /\ pc' = [pc EXCEPT ![g] = "ret"]
    /\ UNCHANGED <<currentID, items, menuItems, readers, written, call, got, interfered,
                   numSets, numQuits, clickVars, loopVars>>

\* addOrUpdateMenuItem(item, before); the deferred menuItemsLock.Unlock()
ApplyUnlock(g) ==
    /\ pc[g] = "apply"
    /\ writer = g
    /\ addOrUpdateMenuItem(call[g].item, call[g].before)
    /\ writer' = None
    /\ pc' = [pc EXCEPT ![g] = "ret"]
    /\ UNCHANGED <<currentID, items, menuItems, readers, written, call, got, interfered,
                   numSets, numQuits, clickVars, loopVars>>

\* the call (AddMenuItem or a setter) returns to its caller
Return(g) ==
    /\ pc[g] = "ret"
    /\ pc' = [pc EXCEPT ![g] = "idle"]
    /\ call' = [call EXCEPT ![g] = NoCall]
    /\ interfered' = [interfered EXCEPT ![g] = FALSE]
    /\ UNCHANGED <<menuVars, got, numSets, numQuits, clickVars, loopVars>>

\* ---- the setters ----

\* a one-word store by a setter that hands the backend the item itself as hint
SetBoolBefore(g, op, p, f, v) ==
    /\ pc[g] = "idle"
    /\ p \in Handles
    /\ numSets < MaxSets
    /\ items' = [items EXCEPT ![p][f] = v]
    /\ pc' = [pc EXCEPT ![g] = "lock"]
    /\ call' = [call EXCEPT ![g] = [NoCall EXCEPT !.op = op, !.item = p,
                    !.id = items[p].id, !.field = f, !.bval = v, !.before = p]]
    /\ interfered' = [h \in Goroutines |->
                        IF h = g THEN FALSE
                        ELSE interfered[h] \/ InSetter(h, p, f)]
    /\ numSets' = numSets + 1
    /\ UNCHANGED <<currentID, menuItems, writer, readers, native, order, written,
                   applied, placed, got, numQuits, clickVars, loopVars>>

\* item.<field> = v, a one-word store, by a setter called on handle p
SetBool(g, op, p, f, v) ==
    /\ pc[g] = "idle"
    /\ p \in Handles
    /\ numSets < MaxSets
    /\ items' = [items EXCEPT ![p][f] = v]
    /\ pc' = [pc EXCEPT ![g] = "lock"]
    /\ call' = [call EXCEPT ![g] = [NoCall EXCEPT !.op = op, !.item = p,
                    !.id = items[p].id, !.field = f, !.bval = v]]
    /\ interfered' = [h \in Goroutines |->
                        IF h = g THEN FALSE
                        ELSE interfered[h] \/ InSetter(h, p, f)]
    /\ numSets' = numSets + 1
    /\ UNCHANGED <<currentID, menuItems, writer, readers, native, order, written,
                   applied, placed, got, numQuits, clickVars, loopVars>>

\* item.<field> = v for a string field: the store of the first word
SetString(g, op, p, f, v) ==
    /\ pc[g] = "idle"
    /\ p \in Handles
    /\ numSets < MaxSets
    /\ items' = [items EXCEPT ![p][f][1] = v]
    /\ pc' = [pc EXCEPT ![g] = "len"]
    /\ call' = [call EXCEPT ![g] = [NoCall EXCEPT !.op = op, !.item = p,
                    !.id = items[p].id, !.field = f, !.sval = v]]
    /\ interfered' = [h \in Goroutines |->
                        IF h = g THEN FALSE
                        ELSE interfered[h] \/ InSetter(h, p, f)]
    /\ numSets' = numSets + 1
    /\ UNCHANGED <<currentID, menuItems, writer, readers, native, order, written,
                   applied, placed, got, numQuits, clickVars, loopVars>>

\* item.<field> = v for a string field: the store of the second word
StoreLen(g) ==
    /\ pc[g] = "len"
    /\ items' = [items EXCEPT ![call[g].item][call[g].field][2] = call[g].sval]
    /\ pc' = [pc EXCEPT ![g] = "lock"]
    /\ interfered' = [h \in Goroutines |->
                        IF h = g THEN interfered[h]
                        ELSE interfered[h]
                             \/ InSetter(h, call[g].item, call[g].field)]
    /\ UNCHANGED <<currentID, menuItems, writer, readers, native, order, written,
                   applied, placed, call, got, numSets, numQuits, clickVars, loopVars>>

\* func (item *MenuItem) SetTitle(title string)
SetTitle(g, p, title) == SetString(g, "SetTitle", p, "title", title)

\* func (item *MenuItem) SetTooltip(tooltip string)
SetTooltip(g, p, tooltip) == SetString(g, "SetTooltip", p, "tooltip", tooltip)

\* func (item *MenuItem) SetSeparator(s bool)
SetSeparator(g, p, s) == SetBool(g, "SetSeparator", p, "separator", s)

\* func (item *MenuItem) Enable()
Enable(g, p) == SetBool(g, "Enable", p, "disabled", FALSE)

\* Disable with the value of Enable
DisableClears(g, p) == SetBool(g, "Disable", p, "disabled", FALSE)

\* func (item *MenuItem) Disable()
Disable(g, p) == SetBool(g, "Disable", p, "disabled", TRUE)

\* Check that stores into the disabled field
CheckEnables(g, p) == SetBool(g, "Check", p, "disabled", FALSE)

\* func (item *MenuItem) Check()
Check(g, p) == SetBool(g, "Check", p, "checked", TRUE)

\* Uncheck that flips the checked field
UncheckFlips(g, p) == SetBool(g, "Uncheck", p, "checked", ~items[p].checked)

\* func (item *MenuItem) Uncheck()
Uncheck(g, p) == SetBool(g, "Uncheck", p, "checked", FALSE)

\* Remove that also deletes the item's entry: delete(menuItems, item.id)
RemoveDeletes(g, p) ==
    /\ pc[g] = "idle"
    /\ p \in Handles
    /\ numSets < MaxSets
    /\ items' = [items EXCEPT ![p].remove = TRUE]
    /\ menuItems' = [id \in DOMAIN menuItems \ {items[p].id} |-> menuItems[id]]
    /\ pc' = [pc EXCEPT ![g] = "ret"]
    /\ call' = [call EXCEPT ![g] = [NoCall EXCEPT !.op = "Remove", !.item = p,
                    !.id = items[p].id, !.field = "remove", !.bval = TRUE]]
    /\ numSets' = numSets + 1
    /\ UNCHANGED <<currentID, writer, readers, native, order, written, applied,
                   placed, got, interfered, numQuits, clickVars, loopVars>>

\* func (item *MenuItem) Remove()
Remove(g, p) == SetBool(g, "Remove", p, "remove", TRUE)

\* func (item *MenuItem) GetTitle() string
GetTitle(p) == items[p].title

\* func (item *MenuItem) Disabled() bool
Disabled(p) == items[p].disabled

\* func (item *MenuItem) Checked() bool
Checked(p) == items[p].checked

\* ---- Quit ----

\* func Quit(): the call is made
Quit(g) ==
    /\ pc[g] = "idle"
    /\ numQuits < MaxQuits
    /\ pc' = [pc EXCEPT ![g] = "quit"]
    /\ numQuits' = numQuits + 1
    /\ UNCHANGED <<menuVars, call, got, interfered, numSets, clickVars, loopVars>>

\* backend: quit() asks every running loop to stop; a no-op when none runs
quit ==
    stopReq' = [t \in Mains |-> stopReq[t] \/ mpc[t] \notin {"idle", "ret"}]

\* Quit that hands the request to a running loop and waits for one to take it
QuitReturnNeedsLoop(g) ==
    /\ pc[g] = "quit"
    /\ \E t \in Mains : mpc[t] \notin {"idle", "ret"}
    /\ quit
    /\ pc' = [pc EXCEPT ![g] = "idle"]
    /\ UNCHANGED <<menuVars, call, got, interfered, numSets, numQuits, clickVars,
                   mpc, waiters, readyFired, readyCalls, loopEntries, onReadyBy>>

\* quit() inside Quit, and Quit's return
QuitReturn(g) ==
    /\ pc[g] = "quit"
    /\ quit
    /\ pc' = [pc EXCEPT ![g] = "idle"]
    /\ UNCHANGED <<menuVars, call, got, interfered, numSets, numQuits, clickVars,
                   mpc, waiters, readyFired, readyCalls, loopEntries, onReadyBy>>

\* ---- listeners on ClickedCh ----

\* <-ClickedCh: a listener starts to receive; it takes a buffered value if any
Recv(g) ==
    /\ pc[g] = "idle"
    /\ IF ClickedCh # <<>>
       THEN /\ got' = [got EXCEPT ![g] = Head(ClickedCh)]
            /\ ClickedCh' = Tail(ClickedCh)
            /\ delivered' = delivered + 1
            /\ pc' = [pc EXCEPT ![g] = "got"]
       ELSE /\ pc' = [pc EXCEPT ![g] = "recv"]
            /\ UNCHANGED <<got, ClickedCh, delivered>>
    /\ UNCHANGED <<menuVars, call, interfered, numSets, numQuits, clickId, looked,
                   numClicks, loopVars>>

\* the listener goes on with the value it received
Consume(g) ==
    /\ pc[g] = "got"
    /\ pc' = [pc EXCEPT ![g] = "idle"]
    /\ got' = [got EXCEPT ![g] = Nil]
    /\ UNCHANGED <<menuVars, call, interfered, numSets, numQuits, clickVars, loopVars>>

\* ---- Run and the native loop ----

\* Run that starts the goroutine and returns, without the call of nativeLoop
RunNoLoop(t) ==
    /\ mpc[t] = "idle"
    /\ Len(waiters) < MaxRuns
    /\ waiters' = Append(waiters, [st |-> "recv", calls |-> 0])
    /\ mpc' = [mpc EXCEPT ![t] = "ret"]
    /\ UNCHANGED <<menuVars, goVars, clickVars, readyFired, stopReq, readyCalls,
                   loopEntries, onReadyBy>>

\* func Run(onReady): LockOSThread, go func(){ <-readyCh; onReady() }(), nativeLoop()
Run(t) ==
    /\ mpc[t] = "idle"
    /\ Len(waiters) < MaxRuns
    /\ waiters' = Append(waiters, [st |-> "recv", calls |-> 0])
    /\ loopEntries' = loopEntries + 1
    /\ mpc' = [mpc EXCEPT ![t] = "loop"]
    /\ readyFired' = [readyFired EXCEPT ![t] = FALSE]
    /\ stopReq' = [stopReq EXCEPT ![t] = FALSE]
    /\ UNCHANGED <<menuVars, goVars, clickVars, readyCalls, onReadyBy>>

\* backend: the loop, once initialised, calls systrayReady, once
FireReady(t) ==
    /\ mpc[t] = "loop"
    /\ ~readyFired[t]
    /\ readyFired' = [readyFired EXCEPT ![t] = TRUE]
    /\ readyCalls' = readyCalls + 1
    /\ mpc' = [mpc EXCEPT ![t] = "ready"]
    /\ UNCHANGED <<menuVars, goVars, clickVars, waiters, stopReq, loopEntries,
                   onReadyBy>> 
\* select { case readyCh <- nil: default: }: a send that gives up at once
systrayReadyNonBlocking(t, w) ==
    /\ mpc[t] = "ready"
    /\ mpc' = [mpc EXCEPT ![t] = "loop"]
    /\ UNCHANGED <<menuVars, goVars, clickVars, waiters, readyFired, stopReq,
                   readyCalls, loopEntries, onReadyBy>>

\* a ready rendezvous after which Run returns to its caller
systrayReadyEndsRun(t, w) ==
    /\ mpc[t] = "ready"
    /\ waiters[w].st = "recv"
    /\ waiters' = [waiters EXCEPT ![w].st = "got"]
    /\ mpc' = [mpc EXCEPT ![t] = "ret"]
    /\ UNCHANGED <<menuVars, goVars, clickVars, readyFired, stopReq, readyCalls,
                   loopEntries, onReadyBy>>

\* readyCh <- nil in systrayReady meets <-readyCh in a goroutine started by Run
systrayReady(t, w) ==
    /\ mpc[t] = "ready"
    /\ waiters[w].st = "recv"
    /\ waiters' = [waiters EXCEPT ![w].st = "got"]
    /\ mpc' = [mpc EXCEPT ![t] = "loop"]
    /\ UNCHANGED <<menuVars, goVars, clickVars, readyFired, stopReq, readyCalls,
                   loopEntries, onReadyBy>>

\* The name of the w-th goroutine started by Run: go func() { ... }()
GoroutineOf(w) == "go" \o ToString(w)

\* onReady() in the goroutine started by Run, without the receive before it
onReadyUnsignalled(w) ==
    /\ waiters[w].st \in {"recv", "got"}
    /\ waiters' = [waiters EXCEPT ![w].st = "done", ![w].calls = @ + 1]
    /\ onReadyBy' = onReadyBy \cup {GoroutineOf(w)}
    /\ UNCHANGED <<menuVars, goVars, clickVars, mpc, readyFired, stopReq, readyCalls,
                   loopEntries>>

\* onReady() in the goroutine started by Run
onReady(w) ==
    /\ waiters[w].st = "got"
    /\ waiters' = [waiters EXCEPT ![w].st = "done", ![w].calls = @ + 1]
    /\ onReadyBy' = onReadyBy \cup {GoroutineOf(w)}
    /\ UNCHANGED <<menuVars, goVars, clickVars, mpc, readyFired, stopReq, readyCalls,
                   loopEntries>>

\* backend: a click on a menu item calls systrayMenuItemSelected(id)
FireClick(t, id) ==
    /\ mpc[t] = "loop"
    /\ numClicks < MaxClicks
    /\ numClicks' = numClicks + 1
    /\ clickId' = [clickId EXCEPT ![t] = id]
    /\ mpc' = [mpc EXCEPT ![t] = "rlock"]
    /\ UNCHANGED <<menuVars, goVars, looked, delivered, ClickedCh, waiters,
                   readyFired, stopReq, readyCalls, loopEntries, onReadyBy>>

\* menuItems[id]: the registered item, or nil
Lookup(id) == IF id \in DOMAIN menuItems THEN menuItems[id] ELSE Nil

\* item := menuItems[id] under a read lock that does not wait for the writer
RLockReadNoWait(t) ==
    /\ mpc[t] = "rlock"
    /\ readers' = readers \cup {t}
    /\ looked' = [looked EXCEPT ![t] = Lookup(clickId[t])]
    /\ mpc' = [mpc EXCEPT ![t] = "runlock"]
    /\ UNCHANGED <<currentID, items, menuItems, writer, native, order, written,
                   applied, placed, goVars, clickId, numClicks, delivered,
                   ClickedCh, waiters, readyFired, stopReq, readyCalls,
                   loopEntries, onReadyBy>>

\* menuItemsLock.RLock(); item := menuItems[id]
RLockRead(t) ==
    /\ mpc[t] = "rlock"
    /\ writer = None
    /\ readers' = readers \cup {t}
    /\ looked' = [looked EXCEPT ![t] = Lookup(clickId[t])]
    /\ mpc' = [mpc EXCEPT ![t] = "runlock"]
    /\ UNCHANGED <<currentID, items, menuItems, writer, native, order, written,
                   applied, placed, goVars, clickId, numClicks, delivered,
                   ClickedCh, waiters, readyFired, stopReq, readyCalls,
                   loopEntries, onReadyBy>>

\* defer menuItemsLock.RUnlock(): the read lock is kept through the select
RUnlockDeferred(t) ==
    /\ mpc[t] = "runlock"
    /\ mpc' = [mpc EXCEPT ![t] = "select"]
    /\ UNCHANGED <<menuVars, goVars, clickVars, waiters, readyFired, stopReq,
                   readyCalls, loopEntries, onReadyBy>>

\* menuItemsLock.RUnlock()
RUnlock(t) ==
    /\ mpc[t] = "runlock"
    /\ readers' = readers \ {t}
    /\ mpc' = [mpc EXCEPT ![t] = "select"]
    /\ UNCHANGED <<currentID, items, menuItems, writer, native, order, written,
                   applied, placed, goVars, clickVars, waiters, readyFired,
                   stopReq, readyCalls, loopEntries, onReadyBy>>

\* The goroutines blocked in a receive on ClickedCh
Receiving == {g \in Goroutines : pc[g] = "recv"}

\* go func() { ClickedCh <- item }(): a send that waits for a later receiver
SelectSendQueued(t) ==
    /\ mpc[t] = "select"
    /\ IF Receiving # {}
       THEN /\ \E g \in Receiving :
                /\ got' = [got EXCEPT ![g] = looked[t]]
                /\ pc' = [pc EXCEPT ![g] = "got"]
            /\ delivered' = delivered + 1
            /\ UNCHANGED ClickedCh
       ELSE /\ ClickedCh' = Append(ClickedCh, looked[t])
            /\ UNCHANGED <<got, pc, delivered>>
    /\ mpc' = [mpc EXCEPT ![t] = "loop"]
    /\ clickId' = [clickId EXCEPT ![t] = 0]
    /\ looked' = [looked EXCEPT ![t] = Nil]
    /\ UNCHANGED <<menuVars, call, interfered, numSets, numQuits, numClicks, waiters,
                   readyFired, stopReq, readyCalls, loopEntries, onReadyBy>>

\* ClickedCh <- item without the default case: the send waits for a receiver
SelectSendBlocking(t) ==
    /\ mpc[t] = "select"
    /\ \E g \in Receiving :
        /\ got' = [got EXCEPT ![g] = looked[t]]
        /\ pc' = [pc EXCEPT ![g] = "got"]
    /\ delivered' = delivered + 1
    /\ mpc' = [mpc EXCEPT ![t] = "loop"]
    /\ clickId' = [clickId EXCEPT ![t] = 0]
    /\ looked' = [looked EXCEPT ![t] = Nil]
    /\ UNCHANGED <<menuVars, call, interfered, numSets, numQuits, numClicks,
                   ClickedCh, waiters, readyFired, stopReq, readyCalls, loopEntries,
                   onReadyBy>>

\* a send repeated for every listener blocked in a receive
SelectSendBroadcast(t) ==
    /\ mpc[t] = "select"
    /\ got' = [g \in Goroutines |-> IF g \in Receiving THEN looked[t] ELSE got[g]]
    /\ pc' = [g \in Goroutines |-> IF g \in Receiving THEN "got" ELSE pc[g]]
    /\ delivered' = delivered + Cardinality(Receiving)
    /\ mpc' = [mpc EXCEPT ![t] = "loop"]
    /\ clickId' = [clickId EXCEPT ![t] = 0]
    /\ looked' = [looked EXCEPT ![t] = Nil]
    /\ UNCHANGED <<menuVars, call, interfered, numSets, numQuits, numClicks,
                   ClickedCh, waiters, readyFired, stopReq, readyCalls, loopEntries,
                   onReadyBy>>

\* select { case ClickedCh <- item: default: }, and the return to the loop
SelectSend(t) ==
    /\ mpc[t] = "select"
    /\ IF Receiving # {}
       THEN /\ \E g \in Receiving :
                /\ got' = [got EXCEPT ![g] = looked[t]]
                /\ pc' = [pc EXCEPT ![g] = "got"]
            /\ delivered' = delivered + 1
            /\ UNCHANGED ClickedCh
       ELSE IF Len(ClickedCh) < ClickedChCap
            THEN /\ ClickedCh' = Append(ClickedCh, looked[t])
                 /\ UNCHANGED <<got, pc, delivered>>
            ELSE UNCHANGED <<got, pc, delivered, ClickedCh>>
    /\ mpc' = [mpc EXCEPT ![t] = "loop"]
    /\ clickId' = [clickId EXCEPT ![t] = 0]
    /\ looked' = [looked EXCEPT ![t] = Nil]
    /\ UNCHANGED <<menuVars, call, interfered, numSets, numQuits, numClicks, waiters,
                   readyFired, stopReq, readyCalls, loopEntries, onReadyBy>>

\* backend: nativeLoop returns once it has been asked to stop
nativeLoopReturn(t) ==
    /\ mpc[t] = "loop"
    /\ stopReq[t]
    /\ mpc' = [mpc EXCEPT ![t] = "ret"]
    /\ UNCHANGED <<menuVars, goVars, clickVars, waiters, readyFired, stopReq,
                   readyCalls, loopEntries, onReadyBy>>

\* Run returns to its caller
RunReturn(t) ==
    /\ mpc[t] = "ret"
    /\ mpc' = [mpc EXCEPT ![t] = "idle"]
    /\ stopReq' = [stopReq EXCEPT ![t] = FALSE]
    /\ readyFired' = [readyFired EXCEPT ![t] = FALSE]
    /\ UNCHANGED <<menuVars, goVars, clickVars, waiters, readyCalls, loopEntries,
                   onReadyBy>> 
\* ---- the specifications ----

\* update, inside AddMenuItem and inside every setter
UpdateNext ==
    \/ \E g \in Goroutines : LockRegister(g)
    \/ \E g \in Goroutines : ApplyUnlock(g)
    \/ \E g \in Goroutines : Return(g)

\* AddMenuItem, called from any goroutine
AddNext ==
    \/ \E g \in Goroutines, a \in AddArgs, before \in Handles \cup {Nil} :
          AddMenuItem(g, a[1], a[2], before)
    \/ \E g \in Goroutines : AllocId(g)
    \/ UpdateNext

\* the setters, called from any goroutine on any handle
SetNext ==
    \/ \E g \in Goroutines, p \in Handles, s \in Strings : SetTitle(g, p, s)
    \/ \E g \in Goroutines, p \in Handles, s \in Strings : SetTooltip(g, p, s)
    \/ \E g \in Goroutines, p \in Handles, b \in BOOLEAN : SetSeparator(g, p, b)
    \/ \E g \in Goroutines, p \in Handles : Enable(g, p)
    \/ \E g \in Goroutines, p \in Handles : Disable(g, p)
    \/ \E g \in Goroutines, p \in Handles : Check(g, p)
    \/ \E g \in Goroutines, p \in Handles : Uncheck(g, p)
    \/ \E g \in Goroutines, p \in Handles : Remove(g, p)
    \/ \E g \in Goroutines : StoreLen(g)

\* Quit, called from any goroutine
QuitNext ==
    \/ \E g \in Goroutines : Quit(g)
    \/ \E g \in Goroutines : QuitReturn(g)

\* the listeners on ClickedCh
ListenNext ==
    \/ \E g \in Goroutines : Recv(g)
    \/ \E g \in Goroutines : Consume(g)

\* Run, the native loop and the ready handshake
LoopNext ==
    \/ \E t \in Mains : Run(t)
    \/ \E t \in Mains : FireReady(t)
    \/ \E t \in Mains, w \in 1..Len(waiters) : systrayReady(t, w)
    \/ \E w \in 1..Len(waiters) : onReady(w)
    \/ \E t \in Mains : nativeLoopReturn(t)
    \/ \E t \in Mains : RunReturn(t)

\* the clicks the backend reports on the UI thread
ClickNext ==
    \/ \E t \in Mains, id \in 1..MaxItems : FireClick(t, id)
    \/ \E t \in Mains : RLockRead(t)
    \/ \E t \in Mains : RUnlock(t)
    \/ \E t \in Mains : SelectSend(t)

\* The whole program: every operation, from every goroutine, in any order.
Next == AddNext \/ SetNext \/ QuitNext \/ ListenNext \/ LoopNext \/ ClickNext

Spec == Init /\ [][Next]_vars

\* The specifications below are the program with an application that makes
\* only some of the calls; the code of each operation is the same in all.

\* An application that only adds menu items.
SpecAdd == Init /\ [][AddNext]_vars

\* An application that adds menu items from one goroutine, all alike and at
\* the end of the menu, and edits them with every setter from any goroutine.
MenuNext ==
    \/ \E g \in {"g1"} : AddMenuItem(g, "a", "b", Nil)
    \/ \E g \in Goroutines : AllocId(g)
    \/ UpdateNext
    \/ SetNext

SpecMenu == Init /\ [][MenuNext]_vars

\* An application that adds menu items from one goroutine, all alike but each
\* at the end of the menu or before an item it already holds, and edits them
\* with every setter from another goroutine.
OrderNext ==
    \/ \E g \in {"g1"}, before \in Handles \cup {Nil} : AddMenuItem(g, "a", "b", before)
    \/ \E g \in Goroutines : AllocId(g)
    \/ UpdateNext
    \/ \E g \in {"g2"}, p \in Handles, s \in Strings : SetTitle(g, p, s)
    \/ \E g \in {"g2"}, p \in Handles, s \in Strings : SetTooltip(g, p, s)
    \/ \E g \in {"g2"}, p \in Handles, b \in BOOLEAN : SetSeparator(g, p, b)
    \/ \E g \in {"g2"}, p \in Handles : Enable(g, p)
    \/ \E g \in {"g2"}, p \in Handles : Disable(g, p)
    \/ \E g \in {"g2"}, p \in Handles : Check(g, p)
    \/ \E g \in {"g2"}, p \in Handles : Uncheck(g, p)
    \/ \E g \in {"g2"}, p \in Handles : Remove(g, p)
    \/ \E g \in Goroutines : StoreLen(g)

SpecOrder == Init /\ [][OrderNext]_vars

\* An application that starts the loop once, on its main thread, adds menu
\* items, all alike and at the end of the menu, and listens for clicks.
ClickingNext ==
    \/ \E g \in Goroutines : AddMenuItem(g, "a", "b", Nil)
    \/ \E g \in Goroutines : AllocId(g)
    \/ UpdateNext
    \/ ListenNext
    \/ \E t \in {"m1"} : Run(t)
    \/ ClickNext

SpecClick == Init /\ [][ClickingNext]_vars

\* The same application, which also removes menu items.
DispatchNext ==
    \/ ClickingNext
    \/ \E g \in Goroutines, p \in Handles : Remove(g, p)

SpecDispatch == Init /\ [][DispatchNext]_vars

\* An application that starts and quits the loop, from any thread, and adds
\* no menu item, while the backend reports readiness and clicks.
LifeNext ==
    \/ QuitNext
    \/ LoopNext
    \/ \E t \in Mains : FireClick(t, 1)
    \/ \E t \in Mains : RLockRead(t)
    \/ \E t \in Mains : RUnlock(t)
    \/ \E t \in Mains : SelectSend(t)

SpecLife == Init /\ [][LifeNext]_vars

\* The scheduling the liveness claims rest on.  A thread inside
\* systrayMenuItemSelected keeps running: sync.RWMutex lets a waiting reader
\* in once the writer unlocks, and the unlock and the select wait for nothing.
\* A goroutine inside update's locked section reaches its deferred Unlock.
ClickFairness ==
    /\ \A t \in Mains : SF_vars(RLockRead(t))
    /\ \A t \in Mains : WF_vars(RUnlock(t))
    /\ \A t \in Mains : WF_vars(SelectSend(t))
    /\ \A g \in Goroutines : WF_vars(ApplyUnlock(g))

FairClick == SpecClick /\ ClickFairness

FairDispatch == SpecDispatch /\ ClickFairness

\* The UI thread keeps running: it goes through systrayMenuItemSelected, its
\* send on readyCh completes when a goroutine started by Run is receiving, and
\* the loop returns once it has been asked to stop.
LoopFairness ==
    /\ \A t \in Mains : WF_vars(RLockRead(t))
    /\ \A t \in Mains : WF_vars(RUnlock(t))
    /\ \A t \in Mains : WF_vars(SelectSend(t))
    /\ \A t \in Mains : WF_vars(\E w \in 1..Len(waiters) : systrayReady(t, w))
    /\ \A t \in Mains : WF_vars(nativeLoopReturn(t))

FairLife == SpecLife /\ LoopFairness

\* The scheduling the ready handshake rests on: the send on readyCh in
\* systrayReady completes when a goroutine started by Run is receiving, and
\* that goroutine keeps running, so that after its receive it calls onReady.
ReadyFairness ==
    /\ \A t \in Mains : WF_vars(\E w \in 1..Len(waiters) : systrayReady(t, w))
    /\ \A w \in 1..MaxRuns : WF_vars(w <= Len(waiters) /\ onReady(w))

FairReady == SpecLife /\ ReadyFairness

\* A goroutine that has called Quit keeps running too: it gets through quit()
\* and returns.
QuitFairness ==
    /\ LoopFairness
    /\ \A g \in Goroutines : WF_vars(QuitReturn(g))

FairQuit == SpecLife /\ QuitFairness

\* ---- the claims ----

\* The threads inside systrayMenuItemSelected
InClick(t) == mpc[t] \in {"rlock", "runlock", "select"}

\* The listeners that receive a value in this step
NewlyGot == {g \in Goroutines : pc[g] # "got" /\ pc'[g] = "got"}

\* The thread t leaves the select of systrayMenuItemSelected in this step
Selects(t) == mpc[t] = "select" /\ mpc'[t] # "select"

\* C1: any two items made by AddMenuItem, in any interleaving of the calls,
\* have different ids, so N calls yield N distinct ids and none is issued twice.
C1_DistinctIds ==
    /\ \A p, q \in 1..Len(items) : p # q => items[p].id # items[q].id
    /\ Cardinality({items[p].id : p \in 1..Len(items)}) = Len(items)

\* Two AddMenuItem calls are in progress at once and both have their ids.
C1_Witness ==
    /\ Len(items) = 2
    /\ \A g \in Goroutines : call[g].op = "AddMenuItem" /\ call[g].item # Nil

\* C2: when systrayMenuItemSelected(id) found id in the registry, the select
\* hands the registry's item for id to exactly one listener blocked in a
\* receive, if there is one; with no listener blocked in a receive nothing is
\* delivered and nothing stays in the channel; and a listener gets a value only
\* while it is blocked in a receive and some thread executes the select.
C2_ClickDelivery ==
    /\ [][\A t \in Mains : (Selects(t) /\ looked[t] # Nil) =>
            IF Receiving # {}
            THEN \E g \in Receiving :
                    /\ NewlyGot = {g}
                    /\ got'[g] = Lookup(clickId[t])
                    /\ \A h \in Goroutines \ {g} : got'[h] = got[h]
            ELSE NewlyGot = {} /\ got' = got /\ ClickedCh' = <<>>]_vars
    /\ [][\A g \in NewlyGot : pc[g] = "recv" /\ \E t \in Mains : Selects(t)]_vars

\* A listener has received a registered item.
C2_Witness == \E g \in Goroutines : pc[g] = "got" /\ got[g] # Nil

\* C3: every call of systrayMenuItemSelected returns to the loop, whatever the
\* listeners and the mutators do, and a click that finds no listener blocked
\* in a receive changes no listener and leaves nothing in the channel.
C3_ClickReturns ==
    /\ \A t \in Mains : InClick(t) ~> (mpc[t] = "loop")
    /\ [][\A t \in Mains : (Selects(t) /\ Receiving = {}) =>
            (pc' = pc /\ got' = got /\ ClickedCh' = <<>>)]_vars
    /\ [](ClickedCh = <<>>)

\* A click is waiting for the read lock while a mutator holds the write lock.
C3_Witness == \E t \in Mains : mpc[t] = "rlock" /\ writer # None

\* The setter calls that have completed and are about to return
Completed(g) == pc[g] = "ret" /\ call[g].op \notin {"none", "AddMenuItem"}

\* The field a setter is documented to set
FieldOf(op) ==
    CASE op = "SetTitle" -> "title"
      [] op = "SetTooltip" -> "tooltip"
      [] op = "SetSeparator" -> "separator"
      [] op \in {"Enable", "Disable"} -> "disabled"
      [] op \in {"Check", "Uncheck"} -> "checked"
      [] op = "Remove" -> "remove"

\* The value a setter call is documented to leave in that field
ValueOf(c) ==
    CASE c.op \in {"SetTitle", "SetTooltip"} -> Str(c.sval)
      [] c.op = "SetSeparator" -> c.bval
      [] c.op \in {"Disable", "Check", "Remove"} -> TRUE
      [] c.op \in {"Enable", "Uncheck"} -> FALSE

\* A lookup of the call's item id returns the item, with the field as set.
ReadsOwnWrite(g) ==
    /\ Lookup(call[g].id) = call[g].item
    /\ items[Lookup(call[g].id)][FieldOf(call[g].op)] = ValueOf(call[g])

\* C4 as stated: after any completed setter call, in every interleaving with
\* other goroutines' setter calls, a lookup returns the value the call set.
C4_ReadYourWrites == \A g \in Goroutines : Completed(g) => ReadsOwnWrite(g)

\* C4 as amended: after a completed setter call a lookup of the item's id
\* returns the item with the field holding the value the call set, unless
\* another goroutine has written the same field of the same item since the
\* call began.
C4_ReadYourWritesSerialized ==
    \A g \in Goroutines : (Completed(g) /\ ~interfered[g]) => ReadsOwnWrite(g)

\* A setter call has completed while the other goroutine is inside a setter
\* call of its own that did not touch the same field of the same item.
C4_Witness ==
    \E g, h \in Goroutines :
        /\ g # h
        /\ Completed(g)
        /\ ~interfered[g]
        /\ call[h].op \notin {"none", "AddMenuItem"}

\* C5: a click whose id is not in the registry delivers nothing: no listener
\* receives a value, and nothing is put in the channel.
C5_MissDeliversNothing ==
    [][\A t \in Mains : (Selects(t) /\ looked[t] = Nil) =>
            (NewlyGot = {} /\ got' = got /\ delivered' = delivered
             /\ ClickedCh' = ClickedCh)]_vars

C7_RunBlocksUntilQuit ==
    /\ [](\A t \in Mains : mpc[t] = "ret" => (stopReq[t] /\ numQuits > 0))
    /\ \A t \in Mains : stopReq[t] ~> (mpc[t] = "ret")

\* Run is returning after a Quit.
C7_Witness == \E t \in Mains : mpc[t] = "ret"

\* The number of onReady calls made so far
RECURSIVE SumCalls(_)
SumCalls(ws) == IF ws = <<>> THEN 0 ELSE Head(ws).calls + SumCalls(Tail(ws))

\* C8: each goroutine started by Run calls onReady at most once, there are
\* never more onReady calls than calls of systrayReady (none before the
\* backend signals ready, none if it never does), and no thread that runs the
\* native loop has called onReady.
C8_OnReadyOnce ==
    /\ \A w \in 1..Len(waiters) : waiters[w].calls <= 1
    /\ SumCalls(waiters) <= readyCalls
    /\ onReadyBy \cap Mains = {}
    /\ Cardinality(onReadyBy) = SumCalls(waiters)

\* onReady has been called after a ready signal.
C8_Witness == \E w \in 1..Len(waiters) : waiters[w].calls = 1

\* C9: each click makes at most one listener receive at most one value, the
\* values received never outnumber the clicks whose select has been executed,
\* and no value is ever stored in the channel.
C9_AtMostOneDelivery ==
    /\ [](delivered <= numClicks - Cardinality({t \in Mains : InClick(t)}))
    /\ [](ClickedCh = <<>>)
    /\ [][/\ Cardinality(NewlyGot) <= 1
          /\ delivered' - delivered = Cardinality(NewlyGot)
          /\ NewlyGot # {} => \E t \in Mains : Selects(t)]_vars

\* Two listeners were blocked in a receive and a click reached one of them.
C9_Witness ==
    \E g, h \in Goroutines : pc[g] = "got" /\ pc[h] = "recv" /\ delivered = 1

\* C10: a second call of Run starts no second native loop and no second
\* goroutine waiting for the ready signal.
C10_SecondRunNoOp == loopEntries <= 1 /\ Len(waiters) <= 1

\* The goroutine g executes the backend apply of update in this step
Applies(g) == pc[g] = "apply" /\ pc'[g] = "ret"

\* The calls of a setter
IsSetter(c) == c.op \notin {"none", "AddMenuItem"}

\* Item a is above item b in the menu
Above(menu, a, b) ==
    \E i, j \in 1..Len(menu) : i < j /\ menu[i] = a /\ menu[j] = b

\* C11: every setter call hands the backend no insert-before hint, the apply
\* of a setter call leaves the order of the backend's menu as it was, and two
\* items of the menu never change their relative order.
C11_HintOnlyAtCreation ==
    /\ [](\A g \in Goroutines : IsSetter(call[g]) => call[g].before = Nil)
    /\ [][\A g \in Goroutines :
            (Applies(g) /\ IsSetter(call[g])) => order' = order]_vars
    /\ [][\A a, b \in DOMAIN native :
            Above(order, a, b) => Above(order', a, b)]_vars

\* The second item was inserted before the first, and a setter call on the
\* first item has been applied to the backend.
C11_Witness ==
    /\ order = <<2, 1>>
    /\ \E g \in Goroutines :
          pc[g] = "ret" /\ IsSetter(call[g]) /\ call[g].id = 1

\* The fields of a MenuItem that a setter can write
Fields == {"title", "tooltip", "disabled", "checked", "remove", "separator"}

\* The goroutine g executes a store of a setter into field f of item p in
\* this step: the store of a bool or of either word of a string.
Stores(g, p, f) ==
    /\ pc[g] \in {"idle", "len"}
    /\ pc'[g] \in {"len", "lock"}
    /\ IsSetter(call'[g])
    /\ call'[g].item = p
    /\ FieldOf(call'[g].op) = f

\* C12: no step changes the id of an item; a field of an item changes only
\* in the store of a setter documented to set that field, called on that
\* item; the registry maps each id to the item that carries it; and every
\* apply hands the backend the item's state in full, as it then is.
C12_SetterFrame ==
    /\ [][\A p \in 1..Len(items) : items'[p].id = items[p].id]_vars
    /\ [][\A p \in 1..Len(items), f \in Fields :
            items'[p][f] # items[p][f] => \E g \in Goroutines : Stores(g, p, f)]_vars
    /\ [](\A id \in DOMAIN menuItems : items[menuItems[id]].id = id)
    /\ [][\A g \in Goroutines :
            Applies(g) => native'[call[g].id] = items[call[g].item]]_vars

\* Disable and then Check have been called on an item: it is disabled and
\* checked and has the title and tooltip it was created with, in the registry
\* and in the backend.
C12_Witness ==
    \E g \in Goroutines :
        /\ pc[g] = "ret"
        /\ call[g].op = "Check"
        /\ LET it == items[Lookup(call[g].id)] IN
            /\ it = [MenuItem(call[g].id, "a", "b") EXCEPT !.disabled = TRUE,
                                                           !.checked = TRUE]
            /\ native[call[g].id] = it

\* The AddMenuItem calls that have the id of their item
Adding(g) == call[g].op = "AddMenuItem" /\ call[g].id # 0

\* C13: every id the backend has been handed is in the registry, mapped to
\* the item with that id; the only apply of an item while its AddMenuItem
\* call is in progress is made by that call, and is the first for its id; and
\* when AddMenuItem is about to return, the registry maps the id to the new
\* item, the item has the given title and tooltip and no flag set, the
\* backend holds that state, and the apply carried the caller's hint.
C13_AddPropagates ==
    /\ [](\A id \in DOMAIN native :
            id \in DOMAIN menuItems /\ items[menuItems[id]].id = id)
    /\ [][\A g, h \in Goroutines :
            (Adding(g) /\ Applies(h) /\ call[h].id = call[g].id) =>
                (h = g /\ call[g].id \notin DOMAIN native
                 /\ applied' = applied + 1)]_vars
    /\ [](\A g \in Goroutines : (Adding(g) /\ pc[g] = "ret") =>
            /\ Lookup(call[g].id) = call[g].item
            /\ items[call[g].item] = MenuItem(call[g].id, call[g].sval, call[g].tooltip)
            /\ call[g].id \in DOMAIN native
            /\ native[call[g].id] = items[call[g].item]
            /\ placed[call[g].id] = call[g].before)

\* AddMenuItem is about to return an item it inserted before another one,
\* while a setter call on that other item is in progress.
C13_Witness ==
    \E g, h \in Goroutines :
        /\ Adding(g) /\ pc[g] = "ret" /\ call[g].before # Nil
        /\ IsSetter(call[h]) /\ call[h].item = call[g].before

\* The setters that have a getter, and the four that take no argument
Gettable == {"SetTitle", "Enable", "Disable", "Check", "Uncheck"}
Toggles == {"Enable", "Disable", "Check", "Uncheck"}

\* What the getter of the field set by call c returns
Getter(c) ==
    CASE c.op = "SetTitle" -> GetTitle(c.item)
      [] c.op \in {"Enable", "Disable"} -> Disabled(c.item)
      [] c.op \in {"Check", "Uncheck"} -> Checked(c.item)

\* C14: when a call of SetTitle, Enable, Disable, Check or Uncheck has
\* completed and no other goroutine has written that field of the item in the
\* meantime, the getter of the field returns the value the call set; and a
\* call of Enable, Disable, Check or Uncheck on an item whose field already
\* has that value, as after a first such call, changes no item, and its apply
\* changes nothing in the backend that already holds the item's state.
C14_RoundTrip ==
    /\ [](\A g \in Goroutines :
            (Completed(g) /\ ~interfered[g] /\ call[g].op \in Gettable) =>
                Getter(call[g]) = ValueOf(call[g]))
    /\ [][\A g \in Goroutines :
            (pc[g] = "idle" /\ call'[g].op \in Toggles
             /\ items[call'[g].item][FieldOf(call'[g].op)] = ValueOf(call'[g])) =>
                items' = items]_vars
    /\ [][\A g \in Goroutines :
            (Applies(g) /\ call[g].op \in Toggles
             /\ native[call[g].id] = items[call[g].item]) =>
                (native' = native /\ order' = order /\ menuItems' = menuItems)]_vars

\* SetTitle has completed with a title other than the one the item was
\* created with, and GetTitle returns it.
C14_Witness ==
    \E g \in Goroutines :
        /\ Completed(g) /\ ~interfered[g]
        /\ call[g].op = "SetTitle" /\ call[g].sval = "b"
        /\ GetTitle(call[g].item) = Str("b")

\* C15: whenever no goroutine holds the registry lock for writing, every
\* registered id has been applied to the backend, and the item a lookup of the
\* id returns is in the state last applied to the backend for that id.
C15_RegistryMatchesBackend ==
    writer = None =>
        \A id \in DOMAIN menuItems :
            id \in DOMAIN native /\ items[Lookup(id)] = native[id]

\* The goroutines inside update's locked section
InUpdate == {g \in Goroutines : pc[g] = "apply"}

\* The calls that have started and have not yet stored into the registry
BeforeWrite == {g \in Goroutines : pc[g] \in {"len", "lock"}}

\* C16: every AddMenuItem or setter call that has got past its registry
\* write has made exactly one, and exactly one backend apply once it is past
\* that; at most one goroutine is inside update's locked section, it holds the
\* lock for writing and no thread holds it for reading; a click resolution
\* reads the registry only while nobody holds the write lock; each registry
\* write is made with every earlier write already applied, and each apply is
\* made by the holder of the lock, for the latest write, with the item's full
\* state: the backend is handed the applies in the order of the writes.
C16_UpdateAtomic ==
    /\ [](written = Len(items) + numSets - Cardinality(BeforeWrite))
    /\ [](applied = written - Cardinality(InUpdate))
    /\ [](Cardinality(InUpdate) <= 1)
    /\ [](\A g \in Goroutines : pc[g] = "apply" <=> writer = g)
    /\ [](writer # None => readers = {})
    /\ [][\A t \in Mains :
            (mpc[t] = "rlock" /\ mpc'[t] = "runlock") => writer = None]_vars
    /\ [][written' # written =>
            /\ written' = written + 1
            /\ applied = written
            /\ \E g \in Goroutines : pc[g] = "lock" /\ writer' = g]_vars
    /\ [][applied' # applied =>
            /\ applied' = applied + 1
            /\ applied' = written
            /\ \E g \in Goroutines :
                /\ Applies(g) /\ writer = g /\ writer' = None
                /\ native'[call[g].id] = items[call[g].item]]_vars

\* A goroutine is inside update's locked section for a setter call while
\* another call waits for the lock and a click waits to read the registry.
C16_Witness ==
    \E g, h \in Goroutines, t \in Mains :
        /\ pc[g] = "apply" /\ IsSetter(call[g])
        /\ pc[h] = "lock"
        /\ mpc[t] = "rlock"

\* The items whose AddMenuItem call has stored them into the registry
Registered ==
    {p \in 1..Len(items) :
        ~\E g \in Goroutines : Adding(g) /\ call[g].item = p /\ pc[g] = "lock"}

\* C17: when a Remove call has completed, the registry still maps the item's
\* id to the item, whose remove flag is set; no step takes an id out of the
\* registry or maps it to another item; the registry maps exactly the ids of
\* the items stored into it, each to its own item; and a click on the id of an
\* item flagged for removal finds the item and hands it to a listener blocked
\* in a receive.
C17_RemoveOnlyFlags ==
    /\ [](\A g \in Goroutines : (Completed(g) /\ call[g].op = "Remove") =>
            Lookup(call[g].id) = call[g].item /\ items[call[g].item].remove)
    /\ [][\A id \in DOMAIN menuItems :
            id \in DOMAIN menuItems' /\ menuItems'[id] = menuItems[id]]_vars
    /\ [](DOMAIN menuItems = {items[p].id : p \in Registered})
    /\ [](\A p \in Registered : Lookup(items[p].id) = p)
    /\ [][\A t \in Mains :
            (mpc[t] = "rlock" /\ mpc'[t] = "runlock"
             /\ clickId[t] \in DOMAIN menuItems) =>
                looked'[t] = menuItems[clickId[t]]]_vars
    /\ [][\A t \in Mains :
            (Selects(t) /\ looked[t] # Nil /\ items[looked[t]].remove
             /\ Receiving # {}) =>
                \E g \in Receiving : pc'[g] = "got" /\ got'[g] = looked[t]]_vars

\* A listener has received an item whose removal has been applied to the
\* backend, and the registry still holds the item.
C17_Witness ==
    \E g \in Goroutines :
        /\ pc[g] = "got" /\ got[g] # Nil
        /\ native[items[got[g]].id].remove
        /\ Lookup(items[got[g]].id) = got[g]

\* C18: a thread inside systrayReady, called by the loop that Run started,
\* gets back to the loop, and whenever systrayReady has been called more often
\* than onReady, the calls of onReady eventually catch up: every ready signal
\* is followed by a call of onReady.
C18_ReadyHandshake ==
    /\ \A t \in Mains : (mpc[t] = "ready") ~> (mpc[t] = "loop")
    /\ (readyCalls > SumCalls(waiters)) ~> (readyCalls = SumCalls(waiters))

\* Every loop that was started has signalled ready, and onReady has been
\* called for each.
C18_Witness ==
    /\ readyCalls = MaxRuns
    /\ \A w \in 1..Len(waiters) : waiters[w].st = "done"
    /\ Len(waiters) = MaxRuns

\* The thread t is inside nativeLoop, or in a callback the loop has called
InLoop(t) == mpc[t] \in {"loop", "ready", "rlock", "runlock", "select"}

\* C19 as stated: once the loop of a Run call has signalled ready and the
\* signal has been received, that Run call returns to its caller; taken here
\* in the states in which nobody has called Quit.
C19_RunReturnsOnReady ==
    \A t \in Mains :
        (readyFired[t] /\ mpc[t] = "loop" /\ numQuits = 0) ~> (mpc[t] = "ret")

\* C19 as amended: the ready signal does not end Run.  The thread that
\* returns from systrayReady is back in the native loop; from the ready signal
\* until the loop is asked to stop the thread that called Run is inside the
\* loop; and it leaves the loop only from the loop itself, asked to stop.
C19_RunOutlastsReady ==
    /\ [][\A t \in Mains :
            (mpc[t] = "ready" /\ mpc'[t] # "ready") => mpc'[t] = "loop"]_vars
    /\ [](\A t \in Mains : (readyFired[t] /\ ~stopReq[t]) => InLoop(t))
    /\ [][\A t \in Mains :
            (InLoop(t) /\ ~InLoop(t)') => (mpc[t] = "loop" /\ stopReq[t])]_vars

\* The ready signal has been received and onReady has been called, nobody has
\* called Quit, and the thread that called Run is in the native loop.
C19_Witness ==
    \E t \in Mains, w \in 1..Len(waiters) :
        /\ readyFired[t] /\ mpc[t] = "loop"
        /\ waiters[w].st = "done"
        /\ numQuits = 0

\* C20: a thread holds the registry lock for reading exactly between its
\* RLock and its RUnlock, so a thread at the select holds no lock, and the
\* select takes and releases none; the RUnlock waits for nothing; and a
\* mutator call waiting for the lock can take it whenever no other mutator
\* holds it and no thread is between RLock and RUnlock, whether or not a click
\* is at its select and whether or not a listener is receiving.
C20_SendHoldsNoLock ==
    /\ [](\A t \in Mains : t \in readers <=> mpc[t] = "runlock")
    /\ [](\A t \in Mains : mpc[t] = "select" => (t \notin readers /\ writer # t))
    /\ [][\A t \in Mains :
            Selects(t) => (readers' = readers /\ writer' = writer)]_vars
    /\ [](\A t \in Mains : mpc[t] = "runlock" => ENABLED RUnlock(t))
    /\ [](\A g \in Goroutines :
            (pc[g] = "lock" /\ writer = None
             /\ \A t \in Mains : mpc[t] # "runlock") => ENABLED LockRegister(g))

\* A click is at its select with no listener receiving, and a mutator call
\* that waits for the registry lock finds it free.
C20_Witness ==
    \E t \in Mains, g \in Goroutines :
        /\ mpc[t] = "select"
        /\ Receiving = {}
        /\ pc[g] = "lock"
        /\ ENABLED LockRegister(g)
====
